---- MODULE Spec2Model ----
(***************************************************************************)
(* A model of the OpenAI Agents library: Agent (src/unnamed/part_004, the  *)
(* repository's src/Agent.js) and AgentManager (src/unnamed/part_005, the  *)
(* repository's src/AgentManager.js).                                      *)
(*                                                                         *)
(* JavaScript runs one handler at a time and an async function runs        *)
(* without interruption up to its next await, so each action below is one  *)
(* such uninterrupted segment: a synchronous method, the part of chat up   *)
(* to the API request, the part of chat after the API settles, the part    *)
(* of orchestrateConversation between two awaits.                          *)
(***************************************************************************)
EXTENDS Integers, Sequences, FiniteSets, TLC

VARIABLES
    agent,         \* the Agent instances: their fields
    agents,        \* AgentManager.agents, a Map in insertion order
    currentAgent,  \* AgentManager.currentAgent
    calls,         \* every invocation of Agent.chat, in call order
    api,           \* every request openai.chat.completions.create received
    held,          \* the array a client got from getHistory and may edit
    orch,          \* the frame of orchestrateConversation
    last           \* the operation that ran last

vars == <<agent, agents, currentAgent, calls, api, held, orch, last>>

----------------------------------------------------------------------------
(* Bounds of the model. *)

\* Agent.chat invocations a client makes directly in one behaviour.
MaxCalls == 2
\* The largest maxRounds handed to orchestrateConversation.
MaxRounds == 2

(* Values the model draws inputs from. *)
NULL == "null"
AgentObjs == {"A1", "A2"}
UserMsgs == {"m1", "m2"}
Prompts == {"P1", "P2"}
Ids == {"x", "y"}

----------------------------------------------------------------------------
(* Agent: constructor. *)

DefaultName == "Assistant"
DefaultSystemPrompt == "You are a helpful AI assistant."
DefaultModel == "gpt-3.5-turbo"
DefaultMaxTokens == 1000
\* Temperatures are counted in tenths: 7 is 0.7.
DefaultTemperature == 7

NumFields == {"maxTokens", "temperature"}

\* JavaScript's truthiness of o[f]: a missing field is undefined, and
\* undefined, "" and 0 are falsy.
Truthy(o, f) ==
    /\ f \in DOMAIN o
    /\ IF f \in NumFields THEN o[f] # 0 ELSE o[f] # ""

\* o[f] || d
OrElse(o, f, d) == IF Truthy(o, f) THEN o[f] ELSE d

NoConfig == [f \in {} |-> NULL]

AgentNew(config) ==
    [ name                |-> OrElse(config, "name", DefaultName),
      systemPrompt        |-> OrElse(config, "systemPrompt", DefaultSystemPrompt),
      model               |-> OrElse(config, "model", DefaultModel),
      maxTokens           |-> OrElse(config, "maxTokens", DefaultMaxTokens),
      temperature         |-> OrElse(config, "temperature", DefaultTemperature),
      conversationHistory |-> <<>> ]

----------------------------------------------------------------------------
(* Agent.createSpecialized. *)

CoderPreset ==
    [ name |-> "Code Assistant",
      systemPrompt |-> "You are an expert programmer. Help users with coding questions, debug issues, and write clean, efficient code. Always explain your reasoning and provide examples when helpful." ]
WriterPreset ==
    [ name |-> "Writing Assistant",
      systemPrompt |-> "You are a professional writing assistant. Help users improve their writing, create content, and communicate effectively. Focus on clarity, style, and engagement." ]
AnalystPreset ==
    [ name |-> "Data Analyst",
      systemPrompt |-> "You are a data analyst and researcher. Help users understand data, create insights, and make data-driven decisions. Provide clear explanations and actionable recommendations." ]

\* {...preset, ...config}: the fields of both, config's value where both
\* have the field.
Spread(preset, config) ==
    [f \in DOMAIN preset \cup DOMAIN config |->
        IF f \in DOMAIN config THEN config[f] ELSE preset[f]]

\* The object literal specializedConfigs.
SpecializedConfigs(config) ==
    [ coder   |-> Spread(CoderPreset, config),
      writer  |-> Spread(WriterPreset, config),
      analyst |-> Spread(AnalystPreset, config) ]

\* What an object literal inherits from Object.prototype, seen as a config:
\* a function has a name and none of the other fields, and __proto__ is
\* Object.prototype itself, which has none of the fields. (Object.prototype
\* has more properties of the first kind: valueOf, hasOwnProperty, ...)
ObjectPrototype ==
    [ constructor |-> [name |-> "Object"],
      toString    |-> [name |-> "toString"],
      __proto__   |-> NoConfig ]

\* specializedConfigs[type] || specializedConfigs.coder: the property lookup
\* finds own properties and inherited ones, and every object is truthy.
SpecializedConfig(type, config) ==
    IF type \in DOMAIN SpecializedConfigs(config)
    THEN SpecializedConfigs(config)[type]
    ELSE IF type \in DOMAIN ObjectPrototype
    THEN ObjectPrototype[type]
    ELSE SpecializedConfigs(config).coder

\* return new Agent(specializedConfig)
CreateSpecialized(type, config) == AgentNew(SpecializedConfig(type, config))

----------------------------------------------------------------------------
(* Agent.chat. *)

UserEntry(message) == [role |-> "user", content |-> message]
AssistantEntry(content) == [role |-> "assistant", content |-> content]
SystemEntry(prompt) == [role |-> "system", content |-> prompt]

\* PushUser that starts a new array with the message.
PushUserReset(ag, message) ==
    [ag EXCEPT !.conversationHistory = <<UserEntry(message)>>]

\* this.conversationHistory.push({role: 'user', content: message})
PushUser(ag, message) ==
    [ag EXCEPT !.conversationHistory = Append(@, UserEntry(message))]

\* PushAssistant that puts the reply in front of the history.
PushAssistantFirst(ag, content) ==
    [ag EXCEPT !.conversationHistory = <<AssistantEntry(content)>> \o @]

\* this.conversationHistory.push({role: 'assistant', content: ...})
PushAssistant(ag, content) ==
    [ag EXCEPT !.conversationHistory = Append(@, AssistantEntry(content))]

\* BuildMessages without the system entry.
BuildMessagesNoSystem(ag) == ag.conversationHistory

\* const messages = [{role: 'system', content: this.systemPrompt},
\*                   ...this.conversationHistory]
BuildMessages(ag) == <<SystemEntry(ag.systemPrompt)>> \o ag.conversationHistory

\* The argument of this.openai.chat.completions.create.
BuildRequest(ag, options) ==
    [ model       |-> OrElse(options, "model", ag.model),
      messages    |-> BuildMessages(ag),
      max_tokens  |-> OrElse(options, "maxTokens", ag.maxTokens),
      temperature |-> OrElse(options, "temperature", ag.temperature) ]

\* The requests one chat call hands to the API, given the agent after the
\* user message was pushed: one call of completions.create.
SendRequests(a, ag, options, c) ==
    << [agent |-> a, call |-> c, request |-> BuildRequest(ag, options),
        state |-> "pending", value |-> NULL] >>

\* The frame of a chat call that reached its await.
ChatFrame(a, message, options, caller) ==
    [agent |-> a, message |-> message, options |-> options, caller |-> caller,
     status |-> "awaiting", result |-> NULL]

\* Agent.chat up to the await: the values of agent, calls and api after
\* agent a was sent message by caller.
ChatBegin(a, message, options, caller) ==
    LET ag == PushUser(agent[a], message)
        c  == Len(calls) + 1
    IN  [ agent |-> [agent EXCEPT ![a] = ag],
          calls |-> Append(calls, ChatFrame(a, message, options, caller)),
          api   |-> api \o SendRequests(a, ag, options, c) ]

\* ChatAfterResolve that returns the reply and does not push it.
ChatAfterResolveNoPush(c, content) ==
    [ agent |-> agent,
      calls |-> [calls EXCEPT ![c] = [@ EXCEPT !.status = "returned",
                                               !.result = content]] ]

\* Agent.chat after completions.create resolved with a response whose
\* choices[0].message.content is content: the reply is pushed and returned.
ChatAfterResolve(c, content) ==
    [ agent |-> [agent EXCEPT ![calls[c].agent] = PushAssistant(@, content)],
      calls |-> [calls EXCEPT ![c] = [@ EXCEPT !.status = "returned",
                                               !.result = content]] ]

\* ChatAfterReject that throws an error of its own.
ChatAfterRejectOwnError(c, error) ==
    [ agent |-> agent,
      calls |-> [calls EXCEPT ![c] = [@ EXCEPT !.status = "threw",
                                               !.result = "chat failed"]] ]

\* Agent.chat after completions.create rejected with error: the catch block
\* logs the error and throws it again.
ChatAfterReject(c, error) ==
    [ agent |-> agent,
      calls |-> [calls EXCEPT ![c] = [@ EXCEPT !.status = "threw",
                                               !.result = error]] ]

NoOptions == [f \in {} |-> NULL]

NoCall == 0
Op(name, a, c) == [op |-> name, agent |-> a, call |-> c]

DirectCalls == {c \in 1..Len(calls) : calls[c].caller = "client"}

\* A client calls agent.chat(message, options) and reaches the await.
AgentChat(a, message, options) ==
    /\ Cardinality(DirectCalls) < MaxCalls
    /\ LET b == ChatBegin(a, message, options, "client")
       IN  /\ agent' = b.agent
           /\ calls' = b.calls
           /\ api' = b.api
    /\ last' = Op("chat", a, Len(calls) + 1)
    /\ UNCHANGED <<agents, currentAgent, held, orch>>

\* The API answers request i with content, and the chat call that awaits it
\* runs to its return.
ApiResolve(i, content) ==
    /\ i \in 1..Len(api)
    /\ api[i].state = "pending"
    /\ api' = [api EXCEPT ![i] = [@ EXCEPT !.state = "resolved",
                                           !.value = content]]
    /\ LET c == api[i].call
           r == ChatAfterResolve(c, content)
       IN  /\ agent' = r.agent
           /\ calls' = r.calls
           /\ last' = Op("chatReturn", calls[c].agent, c)
    /\ UNCHANGED <<agents, currentAgent, held, orch>>

\* ApiReject whose chat call takes its user message off the history again.
ApiRejectRollback(i, error) ==
    /\ i \in 1..Len(api)
    /\ api[i].state = "pending"
    /\ api' = [api EXCEPT ![i] = [@ EXCEPT !.state = "rejected",
                                           !.value = error]]
    /\ LET c == api[i].call
           r == ChatAfterReject(c, error)
       IN  /\ agent' = [r.agent EXCEPT ![calls[c].agent].conversationHistory =
                                          SubSeq(@, 1, Len(@) - 1)]
           /\ calls' = r.calls
           /\ last' = Op("chatThrow", calls[c].agent, c)
    /\ UNCHANGED <<agents, currentAgent, held, orch>>

\* The API fails request i with error, and the chat call that awaits it
\* runs through its catch block.
ApiReject(i, error) ==
    /\ i \in 1..Len(api)
    /\ api[i].state = "pending"
    /\ api' = [api EXCEPT ![i] = [@ EXCEPT !.state = "rejected",
                                           !.value = error]]
    /\ LET c == api[i].call
           r == ChatAfterReject(c, error)
       IN  /\ agent' = r.agent
           /\ calls' = r.calls
           /\ last' = Op("chatThrow", calls[c].agent, c)
    /\ UNCHANGED <<agents, currentAgent, held, orch>>

----------------------------------------------------------------------------
(* Agent.clearHistory, getHistory, setSystemPrompt. *)

NoHeld == [src |-> NULL, shared |-> FALSE, arr |-> <<>>, edited |-> FALSE]

\* The contents of the array the client holds: when it is the agent's own
\* array (shared), the contents are the agent's.
HeldValue ==
    IF held.shared THEN agent[held.src].conversationHistory ELSE held.arr

\* ClearHistory that also puts the default system prompt back.
ClearHistoryAndPrompt(a) ==
    /\ agent' = [agent EXCEPT ![a].conversationHistory = <<>>,
                              ![a].systemPrompt = DefaultSystemPrompt]
    /\ held' = IF held.shared /\ held.src = a
               THEN [held EXCEPT !.shared = FALSE,
                                 !.arr = agent[a].conversationHistory]
               ELSE held
    /\ last' = Op("clearHistory", a, NoCall)
    /\ UNCHANGED <<agents, currentAgent, calls, api, orch>>

\* this.conversationHistory = []: the field gets a new array, and an array
\* handed out before keeps what it held.
ClearHistory(a) ==
    /\ agent' = [agent EXCEPT ![a].conversationHistory = <<>>]
    /\ held' = IF held.shared /\ held.src = a
               THEN [held EXCEPT !.shared = FALSE,
                                 !.arr = agent[a].conversationHistory]
               ELSE held
    /\ last' = Op("clearHistory", a, NoCall)
    /\ UNCHANGED <<agents, currentAgent, calls, api, orch>>

\* HistoryCopy that returns this.conversationHistory itself.
HistoryItself(a) ==
    [src |-> a, shared |-> TRUE, arr |-> <<>>, edited |-> FALSE]

\* return [...this.conversationHistory]: a new array with the same entries.
HistoryCopy(a) ==
    [src |-> a, shared |-> FALSE, arr |-> agent[a].conversationHistory,
     edited |-> FALSE]

GetHistory(a) ==
    /\ held' = HistoryCopy(a)
    /\ last' = Op("getHistory", a, NoCall)
    /\ UNCHANGED <<agent, agents, currentAgent, calls, api, orch>>

SetSystemPrompt(a, prompt) ==
    /\ agent' = [agent EXCEPT ![a].systemPrompt = prompt]
    /\ last' = Op("setSystemPrompt", a, NoCall)
    /\ UNCHANGED <<agents, currentAgent, calls, api, held, orch>>

\* The entry the client of src/tests/Agent.test.js pushes on the array it got.
TestEntry == [role |-> "test", content |-> "test"]

Contains(seq, e) == \E k \in 1..Len(seq) : seq[k] = e

\* The client pushes an entry on the array getHistory returned.
HeldPush ==
    /\ held.src # NULL
    /\ ~held.edited
    /\ IF held.shared
       THEN /\ agent' = [agent EXCEPT ![held.src].conversationHistory =
                                          Append(@, TestEntry)]
            /\ held' = [held EXCEPT !.edited = TRUE]
       ELSE /\ held' = [held EXCEPT !.arr = Append(@, TestEntry),
                                    !.edited = TRUE]
            /\ agent' = agent
    /\ last' = Op("heldPush", held.src, NoCall)
    /\ UNCHANGED <<agents, currentAgent, calls, api, orch>>

\* The client removes the last entry of the array getHistory returned.
HeldPop ==
    /\ held.src # NULL
    /\ ~held.edited
    /\ Len(HeldValue) > 0
    /\ IF held.shared
       THEN /\ agent' = [agent EXCEPT ![held.src].conversationHistory =
                                          SubSeq(@, 1, Len(@) - 1)]
            /\ held' = [held EXCEPT !.edited = TRUE]
       ELSE /\ held' = [held EXCEPT !.arr = SubSeq(@, 1, Len(@) - 1),
                                    !.edited = TRUE]
            /\ agent' = agent
    /\ last' = Op("heldPop", held.src, NoCall)
    /\ UNCHANGED <<agents, currentAgent, calls, api, orch>>

----------------------------------------------------------------------------
(* AgentManager: the registry. *)

UNDEFINED == "undefined"

\* Map.has, Map.get, Map.set, Map.delete on a Map kept as the sequence of
\* its [id, agent] entries in insertion order.
MapHas(m, id) == \E k \in 1..Len(m) : m[k].id = id

MapGet(m, id) ==
    IF MapHas(m, id)
    THEN m[CHOOSE k \in 1..Len(m) : m[k].id = id].agent
    ELSE UNDEFINED

\* MapSet that adds an entry whether or not the Map has the id.
MapSetAppend(m, id, a) == Append(m, [id |-> id, agent |-> a])

MapSet(m, id, a) ==
    IF MapHas(m, id)
    THEN [k \in 1..Len(m) |-> IF m[k].id = id THEN [id |-> id, agent |-> a]
                                               ELSE m[k]]
    ELSE Append(m, [id |-> id, agent |-> a])

MapDelete(m, id) == SelectSeq(m, LAMBDA e : e.id # id)

\* return this.agents.get(id) || null
GetAgent(id) ==
    IF MapGet(agents, id) = UNDEFINED THEN NULL ELSE MapGet(agents, id)

\* return Array.from(this.agents.keys())
GetAgentIds == [k \in 1..Len(agents) |-> agents[k].id]

\* Values that are no Agent instance.
NonAgents == {"notAnAgent"}

\* The messages of the errors AgentManager throws.
NotAnAgentError == "Agent must be an instance of the Agent class"
NotFoundError(id) == "Agent with id '" \o id \o "' not found"
NoCurrentAgentError == "No current agent set. Use setCurrentAgent() first."

Thrown(name, error) ==
    [op |-> name, agent |-> NULL, call |-> NoCall, error |-> error]

\* registerAgent(id, value): throws for a value that is no Agent instance.
RegisterAgent(id, value) ==
    /\ IF value \in AgentObjs
       THEN /\ agents' = MapSet(agents, id, value)
            /\ last' = Op("registerAgent", value, NoCall)
       ELSE /\ agents' = agents
            /\ last' = Thrown("registerAgentThrow", NotAnAgentError)
    /\ UNCHANGED <<agent, currentAgent, calls, api, held, orch>>

\* SetCurrentAgent that throws after it has reset currentAgent.
SetCurrentAgentOrNull(id) ==
    /\ IF GetAgent(id) # NULL
       THEN /\ currentAgent' = GetAgent(id)
            /\ last' = Op("setCurrentAgent", GetAgent(id), NoCall)
       ELSE /\ currentAgent' = NULL
            /\ last' = Thrown("setCurrentAgentThrow", NotFoundError(id))
    /\ UNCHANGED <<agent, agents, calls, api, held, orch>>

\* setCurrentAgent(id): throws for an id that is not registered.
SetCurrentAgent(id) ==
    /\ IF GetAgent(id) # NULL
       THEN /\ currentAgent' = GetAgent(id)
            /\ last' = Op("setCurrentAgent", GetAgent(id), NoCall)
       ELSE /\ currentAgent' = currentAgent
            /\ last' = Thrown("setCurrentAgentThrow", NotFoundError(id))
    /\ UNCHANGED <<agent, agents, calls, api, held, orch>>

\* RemoveAgent that resets currentAgent whichever agent it removes.
RemoveAgentResetsCurrent(id) ==
    /\ currentAgent' = NULL
    /\ agents' = MapDelete(agents, id)
    /\ last' = Op(IF MapHas(agents, id) THEN "removeAgentTrue"
                  ELSE "removeAgentFalse", NULL, NoCall)
    /\ UNCHANGED <<agent, calls, api, held, orch>>

\* removeAgent(id)
RemoveAgent(id) ==
    /\ currentAgent' = IF currentAgent = MapGet(agents, id) THEN NULL
                       ELSE currentAgent
    /\ agents' = MapDelete(agents, id)
    /\ last' = Op(IF MapHas(agents, id) THEN "removeAgentTrue"
                  ELSE "removeAgentFalse", NULL, NoCall)
    /\ UNCHANGED <<agent, calls, api, held, orch>>

\* ClearAgents that leaves currentAgent.
ClearAgentsKeepsCurrent ==
    /\ agents' = <<>>
    /\ currentAgent' = currentAgent
    /\ last' = Op("clearAgents", currentAgent, NoCall)
    /\ UNCHANGED <<agent, calls, api, held, orch>>

\* clearAgents(); last keeps the agent that was current.
ClearAgents ==
    /\ agents' = <<>>
    /\ currentAgent' = NULL
    /\ last' = Op("clearAgents", currentAgent, NoCall)
    /\ UNCHANGED <<agent, calls, api, held, orch>>

----------------------------------------------------------------------------
(* New Agent instances. *)

\* Nothing refers to object a, so that a can stand for a new object: it is
\* not registered, not current, not held by a client, and no chat call or
\* orchestration on it is under way.
Unreferenced(a) ==
    /\ \A k \in 1..Len(agents) : agents[k].agent # a
    /\ currentAgent # a
    /\ held.src # a
    /\ orch.agent # a
    /\ \A c \in 1..Len(calls) : calls[c].agent = a => calls[c].status # "awaiting"

OpConfig(name, a, type, config) ==
    [op |-> name, agent |-> a, call |-> NoCall, type |-> type, config |-> config]

\* a = new Agent(config)
Construct(a, config) ==
    /\ Unreferenced(a)
    /\ agent' = [agent EXCEPT ![a] = AgentNew(config)]
    /\ last' = OpConfig("construct", a, NULL, config)
    /\ UNCHANGED <<agents, currentAgent, calls, api, held, orch>>

\* a = Agent.createSpecialized(type, config)
Specialize(a, type, config) ==
    /\ Unreferenced(a)
    /\ agent' = [agent EXCEPT ![a] = CreateSpecialized(type, config)]
    /\ last' = OpConfig("createSpecialized", a, type, config)
    /\ UNCHANGED <<agents, currentAgent, calls, api, held, orch>>

----------------------------------------------------------------------------
(* AgentManager: createAgent, createSpecializedAgent, chat, chatWithAgent. *)

\* createAgent(id, config): a is the new Agent.
CreateAgent(id, a, config) ==
    /\ Unreferenced(a)
    /\ agent' = [agent EXCEPT ![a] = AgentNew(config)]
    /\ agents' = MapSet(agents, id, a)
    /\ last' = Op("createAgent", a, NoCall)
    /\ UNCHANGED <<currentAgent, calls, api, held, orch>>

\* createSpecializedAgent(id, type, config): a is the new Agent.
CreateSpecializedAgent(id, a, type, config) ==
    /\ Unreferenced(a)
    /\ agent' = [agent EXCEPT ![a] = CreateSpecialized(type, config)]
    /\ agents' = MapSet(agents, id, a)
    /\ last' = Op("createSpecializedAgent", a, NoCall)
    /\ UNCHANGED <<currentAgent, calls, api, held, orch>>

\* ManagerChat that hands the agent the message without the options.
ManagerChatNoOptions(message, options) ==
    /\ currentAgent # NULL => Len(calls) < MaxCalls
    /\ IF currentAgent = NULL
       THEN /\ last' = Thrown("managerChatThrow", NoCurrentAgentError)
            /\ UNCHANGED <<agent, calls, api>>
       ELSE /\ LET b == ChatBegin(currentAgent, message, NoOptions, "manager")
               IN  /\ agent' = b.agent
                   /\ calls' = b.calls
                   /\ api' = b.api
            /\ last' = Op("managerChat", currentAgent, Len(calls) + 1)
    /\ UNCHANGED <<agents, currentAgent, held, orch>>

\* AgentManager.chat(message, options) up to its await: it throws when no
\* agent is current, and else awaits currentAgent.chat(message, options),
\* whose settlement is its own.
ManagerChat(message, options) ==
    /\ currentAgent # NULL => Len(calls) < MaxCalls
    /\ IF currentAgent = NULL
       THEN /\ last' = Thrown("managerChatThrow", NoCurrentAgentError)
            /\ UNCHANGED <<agent, calls, api>>
       ELSE /\ LET b == ChatBegin(currentAgent, message, options, "manager")
               IN  /\ agent' = b.agent
                   /\ calls' = b.calls
                   /\ api' = b.api
            /\ last' = Op("managerChat", currentAgent, Len(calls) + 1)
    /\ UNCHANGED <<agents, currentAgent, held, orch>>

\* ChatWithAgent that makes the agent the current one.
ChatWithAgentSetsCurrent(agentId, message, options) ==
    /\ GetAgent(agentId) # NULL => Len(calls) < MaxCalls
    /\ IF GetAgent(agentId) = NULL
       THEN /\ last' = Thrown("chatWithAgentThrow", NotFoundError(agentId))
            /\ UNCHANGED <<agent, calls, api, currentAgent>>
       ELSE /\ LET b == ChatBegin(GetAgent(agentId), message, options, "managerWith")
               IN  /\ agent' = b.agent
                   /\ calls' = b.calls
                   /\ api' = b.api
            /\ currentAgent' = GetAgent(agentId)
            /\ last' = Op("chatWithAgent", GetAgent(agentId), Len(calls) + 1)
    /\ UNCHANGED <<agents, held, orch>>

\* chatWithAgent(agentId, message, options) up to its await: it throws when
\* agentId is not registered, and else awaits agent.chat(message, options),
\* whose settlement is its own.
ChatWithAgent(agentId, message, options) ==
    /\ GetAgent(agentId) # NULL => Len(calls) < MaxCalls
    /\ IF GetAgent(agentId) = NULL
       THEN /\ last' = Thrown("chatWithAgentThrow", NotFoundError(agentId))
            /\ UNCHANGED <<agent, calls, api>>
       ELSE /\ LET b == ChatBegin(GetAgent(agentId), message, options, "managerWith")
               IN  /\ agent' = b.agent
                   /\ calls' = b.calls
                   /\ api' = b.api
            /\ last' = Op("chatWithAgent", GetAgent(agentId), Len(calls) + 1)
    /\ UNCHANGED <<agents, currentAgent, held, orch>>

----------------------------------------------------------------------------
(* AgentManager.orchestrateConversation. *)

\* maxRounds = 3 when the argument is not given (NoArg).
DefaultMaxRounds == 3
NoArg == -1
MaxRoundsOf(arg) == IF arg = NoArg THEN DefaultMaxRounds ELSE arg

NoOrch ==
    [ pc |-> "idle", agentIds |-> <<>>, initialMessage |-> NULL, maxRounds |-> 0,
      round |-> 0, idx |-> 0, agentId |-> NULL, agent |-> NULL, call |-> NoCall,
      conversation |-> <<>>, currentMessage |-> NULL, logged |-> <<>>,
      visited |-> <<>> ]

\* Scan with "break" where the code has "continue", and Scan running
\* one round more than maxRounds.
RECURSIVE ScanBreak(_, _, _, _, _)
ScanBreak(ids, maxRounds, round, idx, visited) ==
    IF round >= maxRounds
    THEN [done |-> TRUE, round |-> round, idx |-> idx, visited |-> visited]
    ELSE IF idx > Len(ids)
    THEN ScanBreak(ids, maxRounds, round + 1, 1, visited)
    ELSE IF GetAgent(ids[idx]) = NULL
    THEN ScanBreak(ids, maxRounds, round + 1, 1,
                   Append(visited, [round |-> round, idx |-> idx,
                                    agentId |-> ids[idx], agent |-> NULL]))
    ELSE [done |-> FALSE, round |-> round, idx |-> idx,
          visited |-> Append(visited, [round |-> round, idx |-> idx,
                                       agentId |-> ids[idx],
                                       agent |-> GetAgent(ids[idx])])]

RECURSIVE ScanOneMore(_, _, _, _, _)
ScanOneMore(ids, maxRounds, round, idx, visited) ==
    IF round > maxRounds
    THEN [done |-> TRUE, round |-> round, idx |-> idx, visited |-> visited]
    ELSE IF idx > Len(ids)
    THEN ScanOneMore(ids, maxRounds, round + 1, 1, visited)
    ELSE IF GetAgent(ids[idx]) = NULL
    THEN ScanOneMore(ids, maxRounds, round, idx + 1,
                     Append(visited, [round |-> round, idx |-> idx,
                                      agentId |-> ids[idx], agent |-> NULL]))
    ELSE [done |-> FALSE, round |-> round, idx |-> idx,
          visited |-> Append(visited, [round |-> round, idx |-> idx,
                                       agentId |-> ids[idx],
                                       agent |-> GetAgent(ids[idx])])]

\* One iteration of the inner loop: const agent = this.getAgent(agentId).
Visit(ids, round, idx) ==
    [round |-> round, idx |-> idx, agentId |-> ids[idx],
     agent |-> GetAgent(ids[idx])]

\* The two for loops from (round, idx) on: the first place whose id is
\* registered, passing over ("continue") every id getAgent returns null for;
\* done when round reaches maxRounds. round counts from 0, idx from 1, and
\* visited lists the iterations of the inner loop that were entered.
RECURSIVE Scan(_, _, _, _, _)
Scan(ids, maxRounds, round, idx, visited) ==
    IF round >= maxRounds
    THEN [done |-> TRUE, round |-> round, idx |-> idx, visited |-> visited]
    ELSE IF idx > Len(ids)
    THEN Scan(ids, maxRounds, round + 1, 1, visited)
    ELSE IF GetAgent(ids[idx]) = NULL
    THEN Scan(ids, maxRounds, round, idx + 1,
              Append(visited, Visit(ids, round, idx)))
    ELSE [done |-> FALSE, round |-> round, idx |-> idx,
          visited |-> Append(visited, Visit(ids, round, idx))]

\* The loops run from the place (f.round, f.idx) up to the next await, that
\* of agent.chat(currentMessage), or to the return.
OrchRun(f) ==
    LET pos == Scan(f.agentIds, f.maxRounds, f.round, f.idx, f.visited)
    IN  IF pos.done
        THEN [ orch  |-> [f EXCEPT !.pc = "done", !.round = pos.round,
                                   !.idx = pos.idx, !.agentId = NULL,
                                   !.agent = NULL, !.call = NoCall,
                                   !.visited = pos.visited],
               agent |-> agent, calls |-> calls, api |-> api ]
        ELSE LET id == f.agentIds[pos.idx]
                 a  == GetAgent(id)
                 b  == ChatBegin(a, f.currentMessage, NoOptions, "orch")
             IN  [ orch  |-> [f EXCEPT !.pc = "await", !.round = pos.round,
                                       !.idx = pos.idx, !.agentId = id,
                                       !.agent = a, !.call = Len(calls) + 1,
                                       !.visited = pos.visited],
                   agent |-> b.agent, calls |-> b.calls, api |-> b.api ]

\* Exchange with the round counted from 0.
ExchangeRoundFromZero(f, response) ==
    [ round     |-> f.round,
      agentId   |-> f.agentId,
      agentName |-> agent[f.agent].name,
      message   |-> f.currentMessage,
      response  |-> response ]

\* conversation.push({round: round + 1, agentId, agentName: agent.name,
\*                    message: currentMessage, response})
Exchange(f, response) ==
    [ round     |-> f.round + 1,
      agentId   |-> f.agentId,
      agentName |-> agent[f.agent].name,
      message   |-> f.currentMessage,
      response  |-> response ]

\* OrchOnResponse without "currentMessage = response".
OrchOnResponseSameMessage(f, response) ==
    [f EXCEPT !.conversation = Append(@, Exchange(f, response))]

\* The frame after the awaited chat returned response.
OrchOnResponse(f, response) ==
    [f EXCEPT !.conversation = Append(@, Exchange(f, response)),
              !.currentMessage = response]

\* OrchOnError that hands the error on as the next message.
OrchOnErrorAsMessage(f, error) ==
    [f EXCEPT !.logged = Append(@, [agentId |-> f.agentId, error |-> error]),
              !.currentMessage = error]

\* The frame after the awaited chat threw error: the catch block logs it.
OrchOnError(f, error) ==
    [f EXCEPT !.logged = Append(@, [agentId |-> f.agentId, error |-> error])]

\* The inner loop's iterator moves on to the next id of agentIds.
NextPlace(f) == [f EXCEPT !.idx = @ + 1]

\* OrchStart that makes the first agent it calls the current one.
OrchStartSetsCurrent(ids, message, roundsArg) ==
    /\ orch.pc = "idle"
    /\ LET r == OrchRun([NoOrch EXCEPT !.agentIds = ids,
                                       !.initialMessage = message,
                                       !.maxRounds = MaxRoundsOf(roundsArg),
                                       !.round = 0, !.idx = 1,
                                       !.currentMessage = message])
       IN  /\ orch' = r.orch
           /\ agent' = r.agent
           /\ calls' = r.calls
           /\ api' = r.api
           /\ currentAgent' = r.orch.agent
    /\ last' = Op("orchestrate", NULL, NoCall)
    /\ UNCHANGED <<agents, held>>

\* A client calls orchestrateConversation(agentIds, initialMessage, maxRounds).
OrchStart(ids, message, roundsArg) ==
    /\ orch.pc = "idle"
    /\ LET r == OrchRun([NoOrch EXCEPT !.agentIds = ids,
                                       !.initialMessage = message,
                                       !.maxRounds = MaxRoundsOf(roundsArg),
                                       !.round = 0, !.idx = 1,
                                       !.currentMessage = message])
       IN  /\ orch' = r.orch
           /\ agent' = r.agent
           /\ calls' = r.calls
           /\ api' = r.api
    /\ last' = Op("orchestrate", NULL, NoCall)
    /\ UNCHANGED <<agents, currentAgent, held>>

\* The chat call orchestrateConversation awaits has settled: the loop body
\* ends and the loops run on. The continuation is a step of its own, after
\* the step in which the chat call returned or threw, so other handlers
\* may run between the two.
OrchResume ==
    /\ orch.pc = "await"
    /\ calls[orch.call].status # "awaiting"
    /\ LET c == calls[orch.call]
           f == IF c.status = "returned" THEN OrchOnResponse(orch, c.result)
                ELSE OrchOnError(orch, c.result)
           r == OrchRun(NextPlace(f))
       IN  /\ orch' = r.orch
           /\ agent' = r.agent
           /\ calls' = r.calls
           /\ api' = r.api
    /\ last' = Op(IF calls[orch.call].status = "returned" THEN "orchResponse"
                  ELSE "orchError", orch.agent, orch.call)
    /\ UNCHANGED <<agents, currentAgent, held>>

----------------------------------------------------------------------------
(* The agents of a behaviour, as constructed, and a new AgentManager. *)

AgentConfig(a) ==
    IF a = "A1" THEN [name |-> "Coder", systemPrompt |-> "P1"] ELSE NoConfig

Init ==
    /\ agent = [a \in AgentObjs |-> AgentNew(AgentConfig(a))]
    /\ agents = <<>>
    /\ currentAgent = NULL
    /\ calls = <<>>
    /\ api = <<>>
    /\ held = NoHeld
    /\ orch = NoOrch
    /\ last = Op("new", NULL, NoCall)

(* The API: the model gives every request its own reply and its own error, *)
(* so that the replies of two requests can be told apart.                  *)
ReplyTo(i) == "r" \o ToString(i)
ErrorOf(i) == "E" \o ToString(i)

----------------------------------------------------------------------------
(* SpecAgent: one Agent instance and its clients. *)

TheAgent == {"A1"}
ChatOptions == {NoOptions}

NextAgent ==
    \/ \E a \in TheAgent, m \in UserMsgs, o \in ChatOptions : AgentChat(a, m, o)
    \/ \E i \in 1..Len(api) : ApiResolve(i, ReplyTo(i))
    \/ \E i \in 1..Len(api) : ApiReject(i, ErrorOf(i))
    \/ \E a \in TheAgent : ClearHistory(a)
    \/ \E a \in TheAgent, p \in Prompts : SetSystemPrompt(a, p)

SpecAgent == Init /\ [][NextAgent]_vars

(* SpecHistory: one Agent instance under every operation of Agent, and a *)
(* client that edits the arrays getHistory returns. The client sends a    *)
(* new message in every chat.                                             *)
FreshMsg == "m" \o ToString(Len(calls) + 1)
NewPrompts == {"P2"}

NextHistory ==
    \/ \E a \in TheAgent : AgentChat(a, FreshMsg, NoOptions)
    \/ \E i \in 1..Len(api) : ApiResolve(i, ReplyTo(i))
    \/ \E i \in 1..Len(api) : ApiReject(i, ErrorOf(i))
    \/ \E a \in TheAgent : ClearHistory(a)
    \/ \E a \in TheAgent : GetHistory(a)
    \/ \E a \in TheAgent, p \in NewPrompts : SetSystemPrompt(a, p)
    \/ HeldPush
    \/ HeldPop

SpecHistory == Init /\ [][NextHistory]_vars

(* SpecSeq: clients that await each chat before they send the next to the *)
(* same agent, and never clear a history.                                 *)
Awaiting(a) ==
    \E c \in 1..Len(calls) : calls[c].agent = a /\ calls[c].status = "awaiting"

NextSeq ==
    \/ \E a \in AgentObjs, m \in UserMsgs :
          ~Awaiting(a) /\ AgentChat(a, m, NoOptions)
    \/ \E i \in 1..Len(api) : ApiResolve(i, ReplyTo(i))
    \/ \E i \in 1..Len(api) : ApiReject(i, ErrorOf(i))
    \/ \E a \in AgentObjs : GetHistory(a)

SpecSeq == Init /\ [][NextSeq]_vars

(* SpecOrch: an AgentManager, its registry and one orchestrateConversation. *)
IdLists == {<<>>, <<"x">>, <<"x", "y">>, <<"x", "x">>, <<"z", "y">>}
\* The lists orchestrateConversation is given without a maxRounds.
DefaultRoundsLists == {<<"x">>}

RegPairs == {<<"x", "A1">>, <<"y", "A2">>, <<"y", "A1">>}

NextOrch ==
    \/ \E p \in RegPairs : RegisterAgent(p[1], p[2])
    \/ \E id \in Ids : RemoveAgent(id)
    \/ \E ids \in IdLists, n \in 0..MaxRounds : OrchStart(ids, "m0", n)
    \/ \E ids \in DefaultRoundsLists : OrchStart(ids, "m0", NoArg)
    \/ \E i \in 1..Len(api) : ApiResolve(i, ReplyTo(i))
    \/ \E i \in 1..Len(api) : ApiReject(i, ErrorOf(i))
    \/ OrchResume

SpecOrch == Init /\ [][NextOrch]_vars

(* SpecOrchFair: one orchestrateConversation on a manager that holds two  *)
(* agents and loses them, where every API request settles (the claim's    *)
(* proviso) and a settled await resumes (the event loop runs a ready      *)
(* continuation).                                                         *)
InitRegistered ==
    /\ agent = [a \in AgentObjs |-> AgentNew(AgentConfig(a))]
    /\ agents = MapSet(MapSet(<<>>, "x", "A1"), "y", "A2")
    /\ currentAgent = NULL
    /\ calls = <<>>
    /\ api = <<>>
    /\ held = NoHeld
    /\ orch = NoOrch
    /\ last = Op("registerAgent", "A2", NoCall)

RunLists == {<<"x", "y">>, <<"z", "y">>}

NextRun ==
    \/ \E id \in Ids : RemoveAgent(id)
    \/ \E ids \in RunLists, n \in 0..MaxRounds : OrchStart(ids, "m0", n)
    \/ \E i \in 1..Len(api) : ApiResolve(i, ReplyTo(i))
    \/ \E i \in 1..Len(api) : ApiReject(i, ErrorOf(i))
    \/ OrchResume

ApiSettle ==
    \E i \in 1..Len(api) : ApiResolve(i, ReplyTo(i)) \/ ApiReject(i, ErrorOf(i))

SpecOrchFair ==
    InitRegistered /\ [][NextRun]_vars /\ WF_vars(ApiSettle) /\ WF_vars(OrchResume)

(* SpecConfig: Agent instances made from every config that gives each field *)
(* a value, the falsy value of its type, or not at all.                     *)
Fields == {"name", "systemPrompt", "model", "maxTokens", "temperature"}
NameValues == {"", "Test Agent"}
PromptValues == {"", "Test prompt"}
ModelValues == {"", "gpt-4"}
MaxTokensValues == {0, 500}
TemperatureValues == {0, 5}

ConfigOf(D, n, p, m, k, t) ==
    [f \in D |-> CASE f = "name" -> n
                   [] f = "systemPrompt" -> p
                   [] f = "model" -> m
                   [] f = "maxTokens" -> k
                   [] f = "temperature" -> t]

Configs ==
    { ConfigOf(D, n, p, m, k, t) :
        D \in SUBSET Fields, n \in NameValues, p \in PromptValues,
        m \in ModelValues, k \in MaxTokensValues, t \in TemperatureValues }

SpecialConfigs == {c \in Configs : Cardinality(DOMAIN c) <= 1}
Types == {"coder", "writer", "analyst", "unknown", "toString", "__proto__"}

NextConfig ==
    \/ \E a \in TheAgent, config \in Configs : Construct(a, config)
    \/ \E a \in TheAgent, type \in Types, config \in SpecialConfigs :
          Specialize(a, type, config)

SpecConfig == Init /\ [][NextConfig]_vars

(* SpecOptions: one Agent instance whose clients give chat an options      *)
(* object: none of model, maxTokens and temperature, one of them with a    *)
(* value or with the falsy value of its type, or all three.                 *)
OptionFields == {"model", "maxTokens", "temperature"}
OptionSets ==
    {c \in Configs : DOMAIN c \subseteq OptionFields /\ Cardinality(DOMAIN c) <= 1}
    \cup {[model |-> "gpt-4", maxTokens |-> 500, temperature |-> 5]}

NextOptions ==
    \/ \E a \in TheAgent, o \in OptionSets : AgentChat(a, FreshMsg, o)
    \/ \E i \in 1..Len(api) : ApiResolve(i, ReplyTo(i))
    \/ \E i \in 1..Len(api) : ApiReject(i, ErrorOf(i))

SpecOptions == Init /\ [][NextOptions]_vars

(* SpecManager: the registry of an AgentManager under every operation that *)
(* changes it or currentAgent.                                              *)
AllIds == Ids \cup {"z"}
NewConfigs == {NoConfig, [name |-> "New Agent"]}
NewTypes == {"writer"}

NextManager ==
    \/ \E id \in Ids, v \in AgentObjs \cup NonAgents : RegisterAgent(id, v)
    \/ \E id \in Ids, a \in AgentObjs, config \in NewConfigs :
          CreateAgent(id, a, config)
    \/ \E id \in Ids, a \in AgentObjs, type \in NewTypes :
          CreateSpecializedAgent(id, a, type, NoConfig)
    \/ \E id \in AllIds : SetCurrentAgent(id)
    \/ \E id \in AllIds : RemoveAgent(id)
    \/ ClearAgents

SpecManager == Init /\ [][NextManager]_vars

(* SpecConcurrent: clients that send chats to the agents without awaiting  *)
(* the chats sent before, and never clear a history.                       *)
NextConcurrent ==
    \/ \E a \in AgentObjs : AgentChat(a, FreshMsg, NoOptions)
    \/ \E i \in 1..Len(api) : ApiResolve(i, ReplyTo(i))
    \/ \E i \in 1..Len(api) : ApiReject(i, ErrorOf(i))
    \/ \E a \in AgentObjs : GetHistory(a)

SpecConcurrent == Init /\ [][NextConcurrent]_vars

(* SpecOrchFrame: one orchestrateConversation on a manager that holds two *)
(* agents, while clients set the current agent and remove agents.         *)
NextOrchFrame ==
    \/ \E id \in Ids : SetCurrentAgent(id)
    \/ \E id \in Ids : RemoveAgent(id)
    \/ \E ids \in RunLists, n \in 0..MaxRounds : OrchStart(ids, "m0", n)
    \/ \E i \in 1..Len(api) : ApiResolve(i, ReplyTo(i))
    \/ \E i \in 1..Len(api) : ApiReject(i, ErrorOf(i))
    \/ OrchResume

SpecOrchFrame == InitRegistered /\ [][NextOrchFrame]_vars

(* SpecManagerChat: an AgentManager that holds two agents, whose clients *)
(* chat through it while agents are removed and currentAgent changes.     *)
\* The options of src/unnamed/part_006's chatWithAgent test, as one that
\* Agent.chat knows.
ManagerOptions == {[temperature |-> 5]}

NextManagerChat ==
    \/ \E id \in AllIds : SetCurrentAgent(id)
    \/ \E id \in Ids : RemoveAgent(id)
    \/ ClearAgents
    \/ \E o \in ManagerOptions : ManagerChat(FreshMsg, o)
    \/ \E id \in AllIds, o \in ManagerOptions : ChatWithAgent(id, FreshMsg, o)
    \/ \E i \in 1..Len(api) : ApiResolve(i, ReplyTo(i))
    \/ \E i \in 1..Len(api) : ApiReject(i, ErrorOf(i))

SpecManagerChat == InitRegistered /\ [][NextManagerChat]_vars

----------------------------------------------------------------------------
(* orchestrateConversation: what its frame, the chat calls and the API log *)
(* say about each other.                                                   *)

Indices(n) == [k \in 1..n |-> k]

\* The chat calls orchestrateConversation made, in call order.
OrchCalls ==
    SelectSeq(Indices(Len(calls)), LAMBDA c : calls[c].caller = "orch")

\* The iterations in which getAgent returned an agent.
VisitedCalled == SelectSeq(orch.visited, LAMBDA v : v.agent # NULL)

\* The chat calls whose settlement orchestrateConversation has seen: all
\* but the one it awaits.
Consumed ==
    IF orch.pc = "await" THEN SubSeq(OrchCalls, 1, Len(OrchCalls) - 1)
    ELSE OrchCalls

\* The number of k in 1..n with P[k].
RECURSIVE CountTrue(_, _)
CountTrue(P, n) ==
    IF n = 0 THEN 0 ELSE CountTrue(P, n - 1) + (IF P[n] THEN 1 ELSE 0)

\* The response of the last chat call before the k-th that returned, or the
\* initial message.
RECURSIVE LastResponseBefore(_)
LastResponseBefore(k) ==
    IF k <= 1 THEN orch.initialMessage
    ELSE IF calls[OrchCalls[k - 1]].status = "returned"
    THEN calls[OrchCalls[k - 1]].result
    ELSE LastResponseBefore(k - 1)

Steps == orch.maxRounds * Len(orch.agentIds)

\* C1: in the list of exchanges, the first message is initialMessage and
\* every later message is the response of the exchange before it.
C1_MessagesChain ==
    \A k \in 1..Len(orch.conversation) :
        orch.conversation[k].message =
            IF k = 1 THEN orch.initialMessage
            ELSE orch.conversation[k - 1].response

\* C1 witness: a finished run with two exchanges, a failed chat and a
\* skipped id.
C1_Witness ==
    /\ orch.pc = "done"
    /\ Len(orch.conversation) >= 2
    /\ Len(orch.logged) >= 1
    /\ \E j \in 1..Len(orch.visited) : orch.visited[j].agent = NULL

\* C2: when every id was registered when reached and no chat failed, the
\* returned list has maxRounds * n exchanges, the k-th (from 0) of agent
\* agentIds[k mod n] in round floor(k / n) + 1 under that agent's name.
C2_RoundRobin ==
    ( /\ orch.pc = "done"
      /\ \A j \in 1..Len(orch.visited) : orch.visited[j].agent # NULL
      /\ \A k \in 1..Len(OrchCalls) : calls[OrchCalls[k]].status = "returned" )
    => /\ Len(orch.conversation) = Steps
       /\ LET n == Len(orch.agentIds)
          IN  \A k \in 0..(Len(orch.conversation) - 1) :
                 LET e == orch.conversation[k + 1]
                 IN  /\ e.agentId = orch.agentIds[(k % n) + 1]
                     /\ e.round = (k \div n) + 1
                     /\ e.agentName = agent[calls[OrchCalls[k + 1]].agent].name
                     /\ calls[OrchCalls[k + 1]].agent = orch.visited[k + 1].agent

\* C2 witness: two full rounds of two different agents.
C2_Witness ==
    /\ orch.pc = "done"
    /\ orch.maxRounds = 2
    /\ orch.agentIds = <<"x", "y">>
    /\ Len(orch.conversation) = 4
    /\ orch.conversation[1].agentName # orch.conversation[2].agentName

\* C3: a chat call that failed left no exchange but one logged error, each
\* chat call was sent the last successful response before it (or the initial
\* message), a finished run entered all maxRounds * n iterations, and the
\* run only waits or returns.
C3_ErrorCaught ==
    /\ orch.pc \in {"idle", "await", "done"}
    /\ Len(orch.conversation) =
           CountTrue([k \in 1..Len(Consumed) |->
                          calls[Consumed[k]].status = "returned"], Len(Consumed))
    /\ Len(orch.logged) =
           CountTrue([k \in 1..Len(Consumed) |->
                          calls[Consumed[k]].status = "threw"], Len(Consumed))
    /\ \A k \in 1..Len(OrchCalls) :
           calls[OrchCalls[k]].message = LastResponseBefore(k)
    /\ orch.currentMessage =
           IF orch.pc = "idle" THEN NULL
           ELSE LastResponseBefore(Len(Consumed) + 1)
    /\ orch.pc = "done" => Len(orch.visited) = Steps

\* C3 witness: a finished run in which a chat failed after one succeeded
\* and before another succeeded.
C3_Witness ==
    /\ orch.pc = "done"
    /\ \E k \in 2..(Len(OrchCalls) - 1) :
          /\ calls[OrchCalls[k]].status = "threw"
          /\ calls[OrchCalls[k - 1]].status = "returned"
          /\ calls[OrchCalls[k + 1]].status = "returned"

\* The j-th iteration is that of round (j - 1) div n at place (j - 1) mod n.
VisitedInOrder ==
    LET n == Len(orch.agentIds)
    IN  \A j \in 1..Len(orch.visited) :
           /\ orch.visited[j].round = (j - 1) \div n
           /\ orch.visited[j].idx = ((j - 1) % n) + 1
           /\ orch.visited[j].agentId = orch.agentIds[orch.visited[j].idx]

\* C4: an id that is not registered when its iteration is entered gets no
\* chat call and no exchange and leaves the current message alone, and the
\* registered ids of the list still get their calls: the chat calls are
\* those of the iterations that found an agent, in order, and a finished
\* run went through every iteration.
C4_SkipInv ==
    /\ VisitedInOrder
    /\ Len(OrchCalls) = Len(VisitedCalled)
    /\ \A k \in 1..Len(OrchCalls) :
          /\ calls[OrchCalls[k]].agent = VisitedCalled[k].agent
          /\ calls[OrchCalls[k]].message = LastResponseBefore(k)
    /\ Len(orch.conversation) <= Len(VisitedCalled)
    /\ \A e \in 1..Len(orch.conversation) :
          \E k \in 1..Len(VisitedCalled) :
             /\ VisitedCalled[k].agentId = orch.conversation[e].agentId
             /\ VisitedCalled[k].round + 1 = orch.conversation[e].round
    /\ orch.pc = "done" => Len(orch.visited) = Steps

\* Every iteration entered in a step holds what getAgent returned in it.
C4_SkipStep ==
    \A j \in (Len(orch.visited) + 1)..Len(orch'.visited) :
        orch'.visited[j].agent = GetAgent(orch'.visited[j].agentId)

C4_Skip == [](C4_SkipInv) /\ [][C4_SkipStep]_vars

\* C4 witness: a finished run that skipped an id in one round and called
\* the agent registered under the same id in another.
C4_Witness ==
    /\ orch.pc = "done"
    /\ \E i, j \in 1..Len(orch.visited) :
          /\ orch.visited[i].agentId = orch.visited[j].agentId
          /\ orch.visited[i].agent = NULL
          /\ orch.visited[j].agent # NULL
    /\ Len(orch.conversation) >= 1

\* C5: a run makes at most one chat call per iteration and enters at most
\* maxRounds * n iterations, each (round, place) once and in order, so it
\* makes at most maxRounds * n chat calls and returns at most as many
\* exchanges; and a run that waits ends when every chat call settles.
C5_BoundedInv ==
    /\ VisitedInOrder
    /\ Len(orch.visited) <= Steps
    /\ Len(OrchCalls) <= Len(orch.visited)
    /\ Len(OrchCalls) <= Steps
    /\ Len(orch.conversation) <= Steps
    /\ Cardinality({r \in 1..Len(api) : calls[api[r].call].caller = "orch"})
           <= Steps

C5_Bounded == [](C5_BoundedInv) /\ ((orch.pc = "await") ~> (orch.pc = "done"))

\* C5 witness: a finished run that used every one of its steps, one of them
\* a failure.
C5_Witness ==
    /\ orch.pc = "done"
    /\ Steps >= 4
    /\ Len(OrchCalls) = Steps
    /\ Len(orch.logged) >= 1

----------------------------------------------------------------------------
(* Agent: the conversation history. *)

Hist(a) == agent[a].conversationHistory

IsPrefix(s, t) == Len(s) <= Len(t) /\ SubSeq(t, 1, Len(s)) = s

\* C6 as stated: under every operation of Agent the history before the
\* operation is a prefix of the history after it.
C6_AppendOnlyEveryOp ==
    [][\A a \in AgentObjs :
          IsPrefix(agent[a].conversationHistory,
                   agent'[a].conversationHistory)]_vars

\* C6 amended: under chat, getHistory and setSystemPrompt the history
\* before the operation is a prefix of the history after it, and
\* clearHistory leaves the history empty.
C6_AppendOnlyButClear ==
    [][\A a \in AgentObjs :
          IF last'.op = "clearHistory" /\ last'.agent = a
          THEN agent'[a].conversationHistory = <<>>
          ELSE IsPrefix(agent[a].conversationHistory,
                        agent'[a].conversationHistory)]_vars

\* C6 witness: a second chat returned on a history that was never cleared.
C6_Witness == last.op = "chatReturn" /\ Len(Hist("A1")) >= 4

\* What the chat calls 1..n sent to agent a leave in its history when each
\* was awaited before the next: the user message, and the reply when the
\* call returned.
RECURSIVE ExpectedHistory(_, _)
ExpectedHistory(a, n) ==
    IF n = 0 THEN <<>>
    ELSE ExpectedHistory(a, n - 1) \o
         ( IF calls[n].agent # a THEN <<>>
           ELSE IF calls[n].status = "returned"
           THEN <<UserEntry(calls[n].message), AssistantEntry(calls[n].result)>>
           ELSE <<UserEntry(calls[n].message)>> )

\* C7: a new agent's history is empty, a chat that succeeds appends the
\* user message and then the assistant's reply and returns the reply the
\* API gave, so chats awaited one after the other leave the history
\* user, assistant, user, assistant, ... in call order.
C7_PairsInOrder ==
    /\ \A a \in AgentObjs : Hist(a) = ExpectedHistory(a, Len(calls))
    /\ \A r \in 1..Len(api) :
          api[r].state = "resolved" =>
              /\ calls[api[r].call].status = "returned"
              /\ calls[api[r].call].result = api[r].value

\* C7 witness: two chats with different messages returned on one agent.
C7_Witness ==
    /\ Len(calls) = 2
    /\ calls[1].agent = "A1" /\ calls[2].agent = "A1"
    /\ calls[1].status = "returned" /\ calls[2].status = "returned"
    /\ calls[1].message # calls[2].message
    /\ Len(Hist("A1")) = 4

\* C8: every chat call has exactly one API request; when the request is
\* made its messages are the system entry of the agent's current prompt
\* followed by the whole history, which ends with the new user message; no
\* history holds a system entry; setSystemPrompt changes neither a history
\* nor a request.
C8_OneRequestInv ==
    /\ \A c \in 1..Len(calls) :
          Cardinality({r \in 1..Len(api) : api[r].call = c}) = 1
    /\ Len(api) = Len(calls)
    /\ \A a \in AgentObjs : \A k \in 1..Len(Hist(a)) : Hist(a)[k].role # "system"

C8_RequestStep ==
    /\ \A r \in (Len(api) + 1)..Len(api') :
          LET a == api'[r].agent
              m == api'[r].request.messages
          IN  /\ m = <<SystemEntry(agent[a].systemPrompt)>>
                       \o agent'[a].conversationHistory
              /\ m[Len(m)] = UserEntry(calls'[api'[r].call].message)
              /\ agent'[a].systemPrompt = agent[a].systemPrompt
    /\ \A r \in 1..Len(api) : r <= Len(api') /\ api'[r].request = api[r].request
    /\ last'.op = "setSystemPrompt" =>
          /\ api' = api
          /\ \A a \in AgentObjs :
                agent'[a].conversationHistory = agent[a].conversationHistory

C8_Request == [](C8_OneRequestInv) /\ [][C8_RequestStep]_vars

\* C8 witness: a chat on a history of two entries after the prompt was set
\* to a new prompt.
C8_Witness ==
    /\ last.op = "chat"
    /\ agent["A1"].systemPrompt = "P2"
    /\ Len(Hist("A1")) >= 3
    /\ api[Len(api)].request.messages[1] = SystemEntry("P2")

\* C9: when the API rejects a request, the chat call throws the API's
\* error, and the step appends nothing to any history.
C9_RejectInv ==
    \A r \in 1..Len(api) :
        api[r].state = "rejected" =>
            /\ calls[api[r].call].status = "threw"
            /\ calls[api[r].call].result = api[r].value

C9_RejectStep ==
    last'.op = "chatThrow" =>
        \A a \in AgentObjs :
            agent'[a].conversationHistory = agent[a].conversationHistory

C9_Reject == [](C9_RejectInv) /\ [][C9_RejectStep]_vars

\* C9 witness: a chat threw on a history that holds an earlier reply.
C9_Witness ==
    /\ last.op = "chatThrow"
    /\ calls[last.call].status = "threw"
    /\ \E k \in 1..Len(Hist("A1")) : Hist("A1")[k].role = "assistant"

\* C10: the array getHistory returns holds the history's entries, and
\* pushing on it or popping from it changes no agent, hence no later
\* getHistory result and no later request.
C10_CopyStep ==
    /\ last'.op = "getHistory" =>
          HeldValue' = agent'[last'.agent].conversationHistory
    /\ last'.op \in {"heldPush", "heldPop"} => agent' = agent

C10_Copy == [][C10_CopyStep]_vars

\* C10 witness: the client pushed on a returned array of two entries and
\* the agent's history is still what it was.
C10_Witness ==
    /\ last.op = "heldPush"
    /\ Len(Hist("A1")) = 2
    /\ Len(HeldValue) = 3
    /\ HeldValue # Hist("A1")

----------------------------------------------------------------------------
(* clearHistory and the request after it. *)

\* The chat call made on the agent of call c before c, or NoCall.
PrevCall(c) ==
    LET before == {d \in 1..(c - 1) : calls[d].agent = calls[c].agent}
    IN  IF before = {} THEN NoCall
        ELSE CHOOSE d \in before : \A e \in before : e <= d

\* Request r is the first its agent made after a clearHistory: the history
\* it sent no longer holds the user message of the chat call before it.
ClearedBefore(r) ==
    LET m == api[r].request.messages
        d == PrevCall(api[r].call)
    IN  /\ d # NoCall
        /\ \A k \in 1..(Len(m) - 1) : m[k] # UserEntry(calls[d].message)

\* clearHistory leaves the history empty and the other fields as they were.
C11_ClearStep ==
    \A a \in AgentObjs :
        last'.op = "clearHistory" /\ last'.agent = a =>
            /\ agent'[a].conversationHistory = <<>>
            /\ agent'[a].name = agent[a].name
            /\ agent'[a].systemPrompt = agent[a].systemPrompt
            /\ agent'[a].model = agent[a].model
            /\ agent'[a].temperature = agent[a].temperature
            /\ agent'[a].maxTokens = agent[a].maxTokens

\* The first request after a clearHistory holds two messages.
C11_TwoMessages ==
    \A r \in 1..Len(api) :
        ClearedBefore(r) =>
            api[r].request.messages =
                << SystemEntry(api[r].request.messages[1].content),
                   UserEntry(calls[api[r].call].message) >>

\* C11 as stated: after clearHistory the history is empty and name, system
\* prompt, model, temperature and maxTokens are unchanged, and the next
\* chat request sends only the system prompt and the new user message.
C11_ClearThenTwoMessages == [][C11_ClearStep /\ C11_TwoMessages']_vars

\* A chat that follows clearHistory with no step between sends the system
\* prompt and its user message.
C11_ChatNextStep ==
    last.op = "clearHistory" /\ last'.op = "chat" /\ last'.agent = last.agent =>
        api'[Len(api')].request.messages =
            << SystemEntry(agent[last.agent].systemPrompt),
               UserEntry(calls'[last'.call].message) >>

\* The first request after a clearHistory holds the system prompt, then
\* only replies of chat calls made before it, then the new user message.
C11_RepliesOnly ==
    \A r \in 1..Len(api) :
        ClearedBefore(r) =>
            LET m == api[r].request.messages
            IN  /\ Len(m) >= 2
                /\ m[1].role = "system"
                /\ m[Len(m)] = UserEntry(calls[api[r].call].message)
                /\ \A k \in 2..(Len(m) - 1) :
                      \E d \in 1..(api[r].call - 1) :
                          /\ calls[d].agent = api[r].agent
                          /\ calls[d].status = "returned"
                          /\ m[k] = AssistantEntry(calls[d].result)

\* C11 amended: after clearHistory the history is empty and name, system
\* prompt, model, temperature and maxTokens are unchanged; a chat made
\* right after it sends only the system prompt and the new user message,
\* and a next chat made later sends between the two only replies of
\* earlier chat calls (those that were awaiting and have returned).
C11_ClearThenReplies ==
    [][C11_ClearStep /\ C11_ChatNextStep /\ C11_RepliesOnly']_vars

\* C11 witness: a chat returned, the history was cleared, and the next
\* chat sent two messages.
C11_Witness ==
    /\ last.op = "chat"
    /\ Len(calls) = 2
    /\ calls[1].status = "returned"
    /\ ClearedBefore(2)
    /\ Len(api[2].request.messages) = 2

----------------------------------------------------------------------------
(* The constructor and createSpecialized. *)

DefaultOf(f) ==
    CASE f = "name" -> DefaultName
      [] f = "systemPrompt" -> DefaultSystemPrompt
      [] f = "model" -> DefaultModel
      [] f = "maxTokens" -> DefaultMaxTokens
      [] f = "temperature" -> DefaultTemperature

\* C12 as stated: new Agent(config) stores each of name, systemPrompt,
\* model, temperature and maxTokens as config gives it, and the default
\* only for a field config does not provide.
C12_StoredAsGiven ==
    last.op = "construct" =>
        \A f \in Fields :
            agent[last.agent][f] =
                IF f \in DOMAIN last.config THEN last.config[f] ELSE DefaultOf(f)

\* The field of the request that carries option f.
RequestField(request, f) ==
    CASE f = "model" -> request.model
      [] f = "maxTokens" -> request.max_tokens
      [] f = "temperature" -> request.temperature

\* Every request carries, for each of model, maxTokens and temperature,
\* the option when the call's options give it and the agent's stored value
\* otherwise.
C13_OptionsInRequest ==
    \A r \in 1..Len(api) :
        LET o == calls[api[r].call].options
        IN  \A f \in OptionFields :
                RequestField(api[r].request, f) =
                    IF f \in DOMAIN o THEN o[f] ELSE agent[api[r].agent][f]

\* No step of a chat call changes a stored model, maxTokens or temperature.
C13_StoredKept ==
    \A a \in AgentObjs : \A f \in OptionFields : agent'[a][f] = agent[a][f]

\* C13 as stated: the options model, temperature and maxTokens given to
\* chat replace the agent's stored values in that one request whenever they
\* are given, options not given fall back to the stored values, and the
\* stored values are the same after the call as before it.
C13_OptionsReplace == [][C13_OptionsInRequest' /\ C13_StoredKept]_vars

\* The preset the claim names for a type.
PresetOf(type) ==
    CASE type = "writer" -> WriterPreset
      [] type = "analyst" -> AnalystPreset
      [] OTHER -> CoderPreset

\* C14 as stated: createSpecialized(type, config) builds the agent from the
\* preset of type coder, writer or analyst and from the coder preset for
\* every other type, and every field config gives overrides the preset's.
C14_PresetAndOverride ==
    last.op = "createSpecialized" =>
        \A f \in Fields :
            agent[last.agent][f] =
                IF f \in DOMAIN last.config THEN last.config[f]
                ELSE IF f \in DOMAIN PresetOf(last.type) THEN PresetOf(last.type)[f]
                ELSE DefaultOf(f)

----------------------------------------------------------------------------
(* AgentManager: the registry and currentAgent. *)

\* How often id occurs in the sequence ids.
Occurrences(ids, id) == Cardinality({k \in 1..Len(ids) : ids[k] = id})

Registered(id) == Occurrences(GetAgentIds, id) > 0

C15_RegisterStep ==
    \A id \in Ids, v \in AgentObjs \cup NonAgents :
        RegisterAgent(id, v) =>
            IF v \in AgentObjs
            THEN /\ GetAgent(id)' = v
                 /\ Occurrences(GetAgentIds', id) = 1
                 /\ last'.op = "registerAgent"
            ELSE /\ last'.op = "registerAgentThrow"
                 /\ last'.error = "Agent must be an instance of the Agent class"
                 /\ agents' = agents
                 /\ currentAgent' = currentAgent

C15_UnregisteredIsNull ==
    \A id \in AllIds : ~Registered(id) => GetAgent(id) = NULL

\* C15: registerAgent(id, agent) with an Agent instance makes getAgent(id)
\* return that instance and id appear exactly once in getAgentIds(); with a
\* value that is no Agent instance it throws 'Agent must be an instance of
\* the Agent class' and leaves the registry and currentAgent unchanged;
\* getAgent of an id that is not registered returns null.
C15_Register ==
    [][C15_RegisterStep /\ C15_UnregisteredIsNull /\ C15_UnregisteredIsNull']_vars

\* C15 witness: an id was registered again with another agent while the
\* agent it had was current, and two ids are registered.
C15_Witness ==
    /\ last.op = "registerAgent"
    /\ Len(GetAgentIds) = 2
    /\ currentAgent # NULL
    /\ \A k \in 1..Len(agents) : agents[k].agent # currentAgent

\* C16: setCurrentAgent(id) sets currentAgent to the agent registered under
\* id; for an id that is not registered it throws "Agent with id '<id>' not
\* found" and leaves currentAgent and the registry as they were.
C16_SetCurrentStep ==
    \A id \in AllIds :
        SetCurrentAgent(id) =>
            IF Registered(id)
            THEN /\ currentAgent' = GetAgent(id)
                 /\ currentAgent' \in AgentObjs
                 /\ last'.op = "setCurrentAgent"
                 /\ agents' = agents
            ELSE /\ last'.op = "setCurrentAgentThrow"
                 /\ last'.error = "Agent with id '" \o id \o "' not found"
                 /\ currentAgent' = currentAgent
                 /\ agents' = agents

C16_SetCurrent == [][C16_SetCurrentStep]_vars

\* C16 witness: setCurrentAgent threw while an agent was current and
\* registered.
C16_Witness ==
    /\ last.op = "setCurrentAgentThrow"
    /\ currentAgent # NULL
    /\ \E k \in 1..Len(agents) : agents[k].agent = currentAgent

\* C19: removeAgent(id) returns true exactly when id was registered;
\* afterwards getAgent(id) is null and every other id is registered with
\* the agent it had; currentAgent becomes null when the removed agent was
\* the current one and is unchanged when id was not registered.
C19_RemoveStep ==
    \A id \in AllIds :
        RemoveAgent(id) =>
            /\ last'.op = IF Registered(id) THEN "removeAgentTrue"
                          ELSE "removeAgentFalse"
            /\ GetAgent(id)' = NULL
            /\ ~Registered(id)'
            /\ \A other \in AllIds \ {id} :
                  /\ GetAgent(other)' = GetAgent(other)
                  /\ Occurrences(GetAgentIds', other) = Occurrences(GetAgentIds, other)
            /\ Registered(id) /\ GetAgent(id) = currentAgent => currentAgent' = NULL
            /\ ~Registered(id) => currentAgent' = currentAgent /\ agents' = agents

C19_Remove == [][C19_RemoveStep]_vars

\* C19 witness: one of two registered ids was removed, and the agent of the
\* other is still registered and current.
C19_Witness ==
    /\ last.op = "removeAgentTrue"
    /\ Len(GetAgentIds) = 1
    /\ currentAgent # NULL
    /\ GetAgent(GetAgentIds[1]) = currentAgent

\* C20: after clearAgents, whatever was registered and whichever agent was
\* current, getAgentIds() is empty, getAgent returns null for every id and
\* currentAgent is null.
C20_ClearStep ==
    ClearAgents =>
        /\ GetAgentIds' = <<>>
        /\ \A id \in AllIds : GetAgent(id)' = NULL
        /\ currentAgent' = NULL

C20_Clear == [][C20_ClearStep]_vars

\* C20 witness: clearAgents ran on a manager that had a current agent.
C20_Witness ==
    /\ last.op = "clearAgents"
    /\ last.agent \in AgentObjs
    /\ GetAgentIds = <<>>

----------------------------------------------------------------------------
(* AgentManager.chat and chatWithAgent. *)

\* The step made one chat call, on agent a with message and options, and
\* changed no other agent.
OneCallOn(a, message, options) ==
    /\ Len(calls') = Len(calls) + 1
    /\ SubSeq(calls', 1, Len(calls)) = calls
    /\ calls'[Len(calls')].agent = a
    /\ calls'[Len(calls')].message = message
    /\ calls'[Len(calls')].options = options
    /\ Len(api') = Len(api) + 1
    /\ api'[Len(api')].agent = a
    /\ api'[Len(api')].request = BuildRequest(agent'[a], options)
    /\ \A b \in AgentObjs \ {a} : agent'[b] = agent[b]

\* The step called no agent.
NoCallMade == calls' = calls /\ api' = api /\ agent' = agent

\* A call made through the manager settles as the agent's chat settles:
\* with the reply the API gave, or with the error.
SettlesAsAgent(caller) ==
    \A r \in 1..Len(api) :
        calls[api[r].call].caller = caller /\ api[r].state # "pending" =>
            /\ calls[api[r].call].result = api[r].value
            /\ calls[api[r].call].status =
                  IF api[r].state = "resolved" THEN "returned" ELSE "threw"

\* C17: AgentManager.chat(message, options) rejects with 'No current agent
\* set. Use setCurrentAgent() first.' and calls no agent whenever
\* currentAgent is null; otherwise it calls chat on the current agent only,
\* with the same message and options, and returns that agent's response.
C17_ChatStep ==
    \A o \in ManagerOptions :
        ManagerChat(FreshMsg, o) =>
            IF currentAgent = NULL
            THEN /\ last'.op = "managerChatThrow"
                 /\ last'.error = "No current agent set. Use setCurrentAgent() first."
                 /\ NoCallMade
            ELSE /\ OneCallOn(currentAgent, FreshMsg, o)
                 /\ currentAgent' = currentAgent

C17_ManagerChat == [][C17_ChatStep /\ SettlesAsAgent("manager")']_vars

\* C17 witness: a chat through the manager returned, the current agent was
\* removed or the registry cleared, and the next chat was rejected.
C17_Witness ==
    /\ last.op = "managerChatThrow"
    /\ currentAgent = NULL
    /\ \E c \in 1..Len(calls) :
          calls[c].caller = "manager" /\ calls[c].status = "returned"

\* C18: chatWithAgent(agentId, message, options) calls chat on the agent
\* registered under agentId only, whichever agent is current, passes
\* message and options unchanged, returns its response and does not change
\* currentAgent; for an id that is not registered it rejects with "Agent
\* with id '<id>' not found" and calls no agent.
C18_ChatWithStep ==
    \A id \in AllIds, o \in ManagerOptions :
        ChatWithAgent(id, FreshMsg, o) =>
            /\ currentAgent' = currentAgent
            /\ IF Registered(id)
               THEN OneCallOn(GetAgent(id), FreshMsg, o)
               ELSE /\ last'.op = "chatWithAgentThrow"
                    /\ last'.error = "Agent with id '" \o id \o "' not found"
                    /\ NoCallMade

C18_ChatWithAgent == [][C18_ChatWithStep /\ SettlesAsAgent("managerWith")']_vars

\* C18 witness: chatWithAgent called an agent that is not the current one,
\* and an earlier chatWithAgent has returned.
C18_Witness ==
    /\ last.op = "chatWithAgent"
    /\ currentAgent # NULL
    /\ currentAgent # last.agent
    /\ \E c \in 1..Len(calls) :
          calls[c].caller = "managerWith" /\ calls[c].status = "returned"

----------------------------------------------------------------------------
(* currentAgent and the registry. *)

\* C21 as stated: after any sequence of registerAgent, createAgent,
\* createSpecializedAgent, setCurrentAgent, removeAgent and clearAgents,
\* currentAgent is null or an agent registered under at least one id.
C21_CurrentRegistered ==
    \/ currentAgent = NULL
    \/ \E id \in AllIds : GetAgent(id) = currentAgent

----------------------------------------------------------------------------
(* Chats that fail and chats that overlap. *)

\* The messages request r carried after the system entry: the history of
\* its agent when the request was made.
SentHistory(r) ==
    SubSeq(api[r].request.messages, 2, Len(api[r].request.messages))

\* The request of chat call c.
RequestOf(c) == CHOOSE r \in 1..Len(api) : api[r].call = c

\* The entries chat call c can leave in a history: its user message and
\* the reply to its request.
EntriesOf(c) ==
    {UserEntry(calls[c].message), AssistantEntry(ReplyTo(RequestOf(c)))}

\* The chat call made before call c on the agent of c, in the call list cs.
PrevCallIn(cs, c) ==
    LET before == {d \in 1..(c - 1) : cs[d].agent = cs[c].agent}
    IN  IF before = {} THEN NoCall
        ELSE CHOOSE d \in before : \A e \in before : e <= d

\* When a chat call fails, the failing step changes no agent, and the
\* history is what the call sent, its user message last, followed only by
\* entries of other calls.
C22_FailStep ==
    last'.op = "chatThrow" =>
        LET c == last'.call
            a == last'.agent
            h == agent'[a].conversationHistory
            sent == SentHistory(RequestOf(c))
        IN  /\ agent' = agent
            /\ IsPrefix(sent, h)
            /\ sent[Len(sent)] = UserEntry(calls[c].message)
            /\ \A k \in 1..Len(h) : k # Len(sent) => h[k] \notin EntriesOf(c)

\* The chat after a failed chat on the same agent sends the failed chat's
\* user message, and two user messages that follow each other; when the
\* failed message is the last entry of the history, the two are the failed
\* message and the new one.
C22_NextStep ==
    last'.op = "chat" /\ PrevCallIn(calls', last'.call) # NoCall
        /\ calls[PrevCallIn(calls', last'.call)].status = "threw" =>
        LET d == PrevCallIn(calls', last'.call)
            a == last'.agent
            m == api'[Len(api')].request.messages
            u == UserEntry(calls[d].message)
        IN  /\ \E k \in 2..Len(m) : m[k] = u
            /\ \E k \in 2..(Len(m) - 1) :
                  m[k].role = "user" /\ m[k + 1].role = "user"
            /\ Len(Hist(a)) > 0 /\ Hist(a)[Len(Hist(a))] = u =>
                  SubSeq(m, Len(m) - 1, Len(m)) =
                      <<u, UserEntry(calls'[last'.call].message)>>

\* C22: a failed chat is not rolled back: its user message stays in the
\* history, so the failed chat grows the history by exactly one user
\* entry, and the next chat on that agent sends a request in which two
\* user messages follow each other with no assistant entry between them.
C22_NoRollback == [][C22_FailStep /\ C22_NextStep]_vars

\* C22 witness: the first chat of an agent failed, and the next chat sent
\* the system prompt and the two user messages.
C22_Witness ==
    /\ last.op = "chat"
    /\ Len(calls) = 2
    /\ calls[1].status = "threw"
    /\ calls[1].agent = calls[2].agent
    /\ SentHistory(2) = <<UserEntry(calls[1].message), UserEntry(calls[2].message)>>

\* Chat calls d and c of one agent, d made first, both awaiting the API.
Overlap(cs, d, c) ==
    /\ d < c
    /\ cs[d].agent = cs[c].agent
    /\ cs[d].status = "awaiting"
    /\ cs[c].status = "awaiting"

\* When a chat starts while an earlier chat of the agent awaits the API,
\* the history holds both user messages, the earlier first, and the reply
\* to neither, and the new request carries the earlier user message.
C23_OverlapStep ==
    last'.op = "chat" =>
        \A d \in 1..Len(calls) :
            Overlap(calls', d, last'.call) =>
                LET a == last'.agent
                    h == agent'[a].conversationHistory
                    m == api'[Len(api')].request.messages
                    u == UserEntry(calls[d].message)
                IN  /\ h[Len(h)] = UserEntry(calls'[last'.call].message)
                    /\ \E i \in 1..(Len(h) - 1) : h[i] = u
                    /\ \A k \in 1..Len(h) :
                          /\ h[k] # AssistantEntry(ReplyTo(RequestOf(d)))
                          /\ h[k] # AssistantEntry(ReplyTo(Len(api')))
                    /\ m = <<m[1]>> \o h
                    /\ m[1].role = "system"

\* When the API answers a request, the reply is appended to the history as
\* it is then: replies come in the order the API calls complete.
C23_ReplyStep ==
    last'.op = "chatReturn" =>
        LET c == last'.call
            a == last'.agent
        IN  /\ agent'[a].conversationHistory =
                  Append(agent[a].conversationHistory,
                         AssistantEntry(calls'[c].result))
            /\ calls'[c].result = api'[RequestOf(c)].value

\* C23: chat calls on one agent are not serialized: when a second chat
\* starts while the first awaits the API, both user messages are appended
\* before either reply, the second request carries the first call's
\* unanswered user message, and the replies are appended in the order the
\* API calls complete, so the final history need not alternate user,
\* assistant nor pair each reply with its own message.
C23_NotSerialized == [][C23_OverlapStep /\ C23_ReplyStep]_vars

\* C23 witness: two chats overlapped on one agent and the second was
\* answered first: the history is user, user, assistant, assistant with the
\* reply to the second message before the reply to the first.
C23_Witness ==
    /\ Len(calls) = 2
    /\ calls[1].agent = calls[2].agent
    /\ Hist(calls[1].agent) =
          << UserEntry(calls[1].message), UserEntry(calls[2].message),
             AssistantEntry(ReplyTo(2)), AssistantEntry(ReplyTo(1)) >>

----------------------------------------------------------------------------
(* orchestrateConversation: what it changes. *)

\* The chat calls whose response orchestrateConversation has recorded.
Recorded == SelectSeq(Consumed, LAMBDA c : calls[c].status = "returned")

\* The fields of an agent other than its history.
Settings(ag) ==
    [name |-> ag.name, systemPrompt |-> ag.systemPrompt, model |-> ag.model,
     maxTokens |-> ag.maxTokens, temperature |-> ag.temperature]

\* A segment of orchestrateConversation changes neither the registry nor
\* currentAgent nor the array a client holds nor a field of an agent other
\* than a history; when it calls an agent, it appends the forwarded message
\* to that agent's history and changes no other history.
C24_OrchStep ==
    last'.op \in {"orchestrate", "orchResponse", "orchError"} =>
        /\ agents' = agents
        /\ currentAgent' = currentAgent
        /\ held' = held
        /\ \A a \in AgentObjs : Settings(agent'[a]) = Settings(agent[a])
        /\ IF orch'.pc = "await"
           THEN /\ Len(calls') = Len(calls) + 1
                /\ calls'[Len(calls')].agent = orch'.agent
                /\ calls'[Len(calls')].message = orch'.currentMessage
                /\ \A a \in AgentObjs :
                      agent'[a].conversationHistory =
                          IF a = orch'.agent
                          THEN Append(agent[a].conversationHistory,
                                      UserEntry(orch'.currentMessage))
                          ELSE agent[a].conversationHistory
           ELSE agent' = agent /\ calls' = calls

\* When a chat call of orchestrateConversation settles, the registry and
\* currentAgent are unchanged, and the response is appended to the history
\* of the agent called and to no other.
C24_SettleStep ==
    last'.op \in {"chatReturn", "chatThrow"} =>
        /\ agents' = agents
        /\ currentAgent' = currentAgent
        /\ \A a \in AgentObjs :
              /\ Settings(agent'[a]) = Settings(agent[a])
              /\ agent'[a].conversationHistory =
                    IF a = last'.agent /\ last'.op = "chatReturn"
                    THEN Append(agent[a].conversationHistory,
                                AssistantEntry(calls'[last'.call].result))
                    ELSE agent[a].conversationHistory

\* Every recorded exchange is one chat call that returned, with the
\* exchange's message and response, and the histories hold for every chat
\* call its user message and, when it returned, its response, in the
\* history of the agent called.
C24_Exchanges ==
    /\ Len(orch.conversation) = Len(Recorded)
    /\ \A k \in 1..Len(orch.conversation) :
          /\ orch.conversation[k].message = calls[Recorded[k]].message
          /\ orch.conversation[k].response = calls[Recorded[k]].result
          /\ orch.conversation[k].agentName = agent[calls[Recorded[k]].agent].name
    /\ \A a \in AgentObjs : Hist(a) = ExpectedHistory(a, Len(calls))

\* C24: orchestrateConversation never changes the set of registered ids,
\* the agent registered under each id, or currentAgent; its only effect on
\* state is on the histories of the agents it calls, where each recorded
\* exchange adds one user entry (the forwarded message) and one assistant
\* entry (the response) to that agent's own history and to no other's.
C24_OrchFrame == [][C24_OrchStep /\ C24_SettleStep /\ C24_Exchanges']_vars

\* C24 witness: an orchestration that recorded exchanges with both agents
\* has returned, and an agent is current.
C24_Witness ==
    /\ orch.pc = "done"
    /\ Len(orch.conversation) >= 2
    /\ currentAgent # NULL
    /\ \A a \in AgentObjs : Len(Hist(a)) >= 2

====
